---- MODULE Spec2Model ----
(***************************************************************************)
(* Model of the metrics-exporter core of mayastor-extensions:              *)
(*   - client/grpc_client.rs : GrpcClient::new (retry loop), the accessors *)
(*     client_v0 / client_v1 / api_version, and init_client;               *)
(*   - collector/pool.rs     : PoolCapacityCollector::collect and          *)
(*     PoolStatusCollector::collect over the lock-protected cache.         *)
(* Option<T> is a sequence of length 0 (None) or 1 (Some).                 *)
(***************************************************************************)
EXTENDS Integers, Sequences, FiniteSets, TLC

VARIABLES
    \* ---- connection manager (grpc_client.rs) ----
    pc,          \* position of the startup path: init_client / GrpcClient::new
    context,     \* Option<GrpcContext> handed to GrpcClient::new
    newResult,   \* Option<Result<GrpcClient, ExporterError>> returned by new / init_client
    peer,        \* the remote io-engine: "down" or "ready"
    connSeq,     \* number of connect attempts started so far (identifies a channel)
    failed,      \* number of attempts that ended in a timeout or a transport error
    timedOut,    \* number of attempts that ended in a timeout
    sleeps,      \* number of backoff sleeps performed
    slept,       \* total seconds spent in backoff sleeps
    now,         \* simulated clock, seconds since new() was entered
    lastDur,     \* duration of the last connect attempt
    lastCall,    \* Option<[op, res]>: the last accessor call and what it returned
    firstCall,   \* per accessor: Option<what its first call returned>
    \* ---- collectors (pool.rs) ----
    cache,       \* Cache.pool.pools : sequence of PoolInfo
    poisoned,    \* the cache mutex is poisoned
    lockHolder,  \* Option<collector> holding the cache mutex guard
    cpc,         \* position inside collect(): idle / node / loop / returned
    which,       \* the collector whose collect() is running or has last run
    lockRes,     \* result of Cache::get_cache().lock() in this call
    cp,          \* the pools seen through the guard when it was acquired
    node_name,   \* Option<String>: the resolved node name of this call
    idx,         \* 1-based index of the entity the for loop is at
    gauge,       \* 1-based index of the gauge the loop body is at
    metric_family, \* the Vec<MetricFamily> being accumulated
    src,         \* per sample of metric_family: index of the entity it was read from
    ret,         \* the Vec<MetricFamily> returned by the last collect()
    retSrc,      \* src at the time of return
    outcome,     \* return path taken by the last collect()
    failAt,      \* Option<<<entity index, gauge index>>> where labeling failed
    reads,       \* number of PoolInfo entities read by this call
    gauges,      \* state of the GaugeVecs: metric -> (label tuple -> Option<value>)
    \* ---- poller (writer of the cache) ----
    ppc,         \* position of the poll cycle: idle / write / dead
    pollTarget,  \* the pools fetched in this cycle, to be written to the cache
    polled,      \* the pools written by the last completed poll cycle
    polls,       \* number of completed poll cycles
    \* ---- diagnostic sink (utils.rs) ----
    cell,        \* TOOL_LOG_FILE: uninit / none / file
    logFile,     \* the lines written to the log file
    stdout,      \* the lines printed to stdout
    stdoutOpen,  \* stdout can be written to
    logRet       \* how the last call of log() ended

connVars == <<pc, context, newResult, peer, connSeq, failed, timedOut, sleeps,
              slept, now, lastDur, lastCall, firstCall>>
collVars == <<cache, poisoned, lockHolder, cpc, which, lockRes, cp, node_name, idx,
              gauge, metric_family, src, ret, retSrc, outcome, failAt, reads,
              gauges>>
pollVars == <<ppc, pollTarget, polled, polls>>
logVars == <<cell, logFile, stdout, stdoutOpen, logRet>>
vars == <<pc, context, newResult, peer, connSeq, failed, timedOut, sleeps,
          slept, now, lastDur, lastCall, firstCall,
          cache, poisoned, lockHolder, cpc, which, lockRes, cp, node_name, idx,
          gauge, metric_family, src, ret, retSrc, outcome, failAt, reads,
          gauges,
          ppc, pollTarget, polled, polls,
          cell, logFile, stdout, stdoutOpen, logRet>>

None == <<>>
Some(x) == <<x>>
Ok(v) == [ok |-> TRUE, val |-> v]
Err(kind, msg) == [ok |-> FALSE, kind |-> kind, msg |-> msg]

(***************************************************************************)
(* Bounds of the model.                                                    *)
(***************************************************************************)
MaxFails == 3
MaxPools == 2

(***************************************************************************)
(* grpc_client.rs                                                          *)
(***************************************************************************)
ApiVersion == {"V0", "V1"}

\* let sleep_duration_sec = 10;
sleep_duration_sec == 10

\* Timeouts::new(Duration::from_secs(1), Duration::from_secs(5)) in init_client
ConnectTimeoutSec == 1
RequestTimeoutSec == 5

Timeouts_new(connect, request) == [connect |-> connect, request |-> request]

GrpcContext_new(endpoint, timeouts, api_version) ==
    [endpoint |-> endpoint, timeouts |-> timeouts, api_version |-> api_version]

\* The outcomes of one tokio::time::timeout(connect, X::connect(endpoint)):
\* Err(Elapsed), Ok(Err(transport error)), Ok(Ok(client)).
ConnectOutcomes(p) == IF p = "ready" THEN {"connected"} ELSE {"timeout", "error"}

\* How long an attempt with the given outcome can take under the timeout.
AttemptDurations(o, connect) == IF o = "timeout" THEN {connect} ELSE 0..connect

\* Ok(Self { ctx, v0_client: Some(v0_client), v1_client: None })
SelfV0(ctx, ch) ==
    [ctx |-> ctx, v0_client |-> Some([channel |-> ch]), v1_client |-> None]

\* The V1 arm fills the v0 field as well.
SelfV1Both(ctx, ch) ==
    [ctx |-> ctx, v0_client |-> Some([channel |-> ch]),
     v1_client |-> Some([pool |-> [channel |-> ch]])]

\* Ok(Self { ctx, v0_client: None, v1_client: Some(MayaClientV1 { pool }) })
SelfV1(ctx, ch) ==
    [ctx |-> ctx, v0_client |-> None, v1_client |-> Some([pool |-> [channel |-> ch]])]

\* The value the loop returns when an attempt connected.
NewReturn(ctx, ch) ==
    IF ctx.api_version = "V0" THEN Ok(SelfV0(ctx, ch)) ELSE Ok(SelfV1(ctx, ch))

client_v0(self) ==
    IF self.v0_client # None
    THEN Ok(self.v0_client[1])
    ELSE Err("GrpcClientError", "Could not get v0 client")

client_v1(self) ==
    IF self.v1_client # None
    THEN Ok(self.v1_client[1])
    ELSE Err("GrpcClientError", "Could not get v1 client")

api_version(self) == self.ctx.api_version

\* init_client: pod ip and node name are read first, then the URI is built;
\* each can fail and then GrpcClient::new is never called.
init_client ==
    /\ pc = "init"
    /\ \E v \in ApiVersion, podIp \in {"ok", "unset", "malformed"}, nodeOk \in BOOLEAN :
        IF podIp = "unset"
        THEN /\ pc' = "init_failed"
             /\ newResult' = Some(Err("GetEnvironmentVariable", "pod ip"))
             /\ context' = context
        ELSE IF ~nodeOk
        THEN /\ pc' = "init_failed"
             /\ newResult' = Some(Err("GetEnvironmentVariable", "node name"))
             /\ context' = context
        ELSE IF podIp = "malformed"
        THEN /\ pc' = "init_failed"
             /\ newResult' = Some(Err("InvalidURI", "authority"))
             /\ context' = context
        ELSE /\ pc' = "connect"
             /\ context' = Some(GrpcContext_new("https://pod_ip:10124",
                                  Timeouts_new(ConnectTimeoutSec, RequestTimeoutSec), v))
             /\ newResult' = newResult
    /\ UNCHANGED <<peer, connSeq, failed, timedOut, sleeps, slept, now, lastDur, lastCall, firstCall>>
    /\ UNCHANGED <<collVars, pollVars, logVars>>

\* A loop body with an attempt limit: gives up with an error after the
\* second failed attempt.
ConnectStepLimited(o, d) ==
    /\ o # "connected" => failed < MaxFails
    /\ connSeq' = connSeq + 1
    /\ now' = now + d
    /\ lastDur' = d
    /\ IF o = "connected"
       THEN /\ newResult' = Some(NewReturn(context[1], connSeq + 1))
            /\ pc' = "returned"
            /\ UNCHANGED <<failed, timedOut>>
       ELSE /\ failed' = failed + 1
            /\ timedOut' = IF o = "timeout" THEN timedOut + 1 ELSE timedOut
            /\ IF failed + 1 >= 2
               THEN /\ pc' = "returned"
                    /\ newResult' = Some(Err("GrpcClientError", "connect"))
               ELSE /\ pc' = "backoff"
                    /\ UNCHANGED newResult

\* One iteration of the loop body up to the sleep: the match on api_version
\* and on the result of the timed connect (outcome o after d seconds).
ConnectStep(o, d) ==
    /\ o # "connected" => failed < MaxFails
    /\ connSeq' = connSeq + 1
    /\ now' = now + d
    /\ lastDur' = d
    /\ IF o = "connected"
       THEN /\ newResult' = Some(NewReturn(context[1], connSeq + 1))
            /\ pc' = "returned"
            /\ UNCHANGED <<failed, timedOut>>
       ELSE /\ failed' = failed + 1
            /\ timedOut' = IF o = "timeout" THEN timedOut + 1 ELSE timedOut
            /\ pc' = "backoff"
            /\ UNCHANGED newResult

Connect ==
    /\ pc = "connect"
    /\ \E o \in ConnectOutcomes(peer) :
       \E d \in AttemptDurations(o, context[1].timeouts.connect) :
          ConnectStep(o, d)
    /\ UNCHANGED <<context, peer, sleeps, slept, lastCall, firstCall>>
    /\ UNCHANGED <<collVars, pollVars, logVars>>

\* The loop continues without the sleep.
BackoffSkipped ==
    /\ pc = "backoff"
    /\ pc' = "connect"
    /\ UNCHANGED <<context, newResult, peer, connSeq, failed, timedOut, sleeps, slept,
                   now, lastDur, lastCall, firstCall>>
    /\ UNCHANGED <<collVars, pollVars, logVars>>

\* The loop is left after the sleep instead of being repeated.
BackoffBreak ==
    /\ pc = "backoff"
    /\ sleeps' = sleeps + 1
    /\ slept' = slept + sleep_duration_sec
    /\ now' = now + sleep_duration_sec
    /\ pc' = "stopped"
    /\ UNCHANGED <<context, newResult, peer, connSeq, failed, timedOut, lastDur, lastCall, firstCall>>
    /\ UNCHANGED <<collVars, pollVars, logVars>>

\* The sleep is Duration::from_millis: it takes no whole second.
BackoffMillis ==
    /\ pc = "backoff"
    /\ sleeps' = sleeps + 1
    /\ slept' = slept + (sleep_duration_sec \div 1000)
    /\ now' = now + (sleep_duration_sec \div 1000)
    /\ pc' = "connect"
    /\ UNCHANGED <<context, newResult, peer, connSeq, failed, timedOut, lastDur, lastCall, firstCall>>
    /\ UNCHANGED <<collVars, pollVars, logVars>>

\* sleep(Duration::from_secs(sleep_duration_sec)).await; then the next iteration.
Backoff ==
    /\ pc = "backoff"
    /\ sleeps' = sleeps + 1
    /\ slept' = slept + sleep_duration_sec
    /\ now' = now + sleep_duration_sec
    /\ pc' = "connect"
    /\ UNCHANGED <<context, newResult, peer, connSeq, failed, timedOut, lastDur, lastCall, firstCall>>
    /\ UNCHANGED <<collVars, pollVars, logVars>>

\* The io-engine becomes ready / goes away (environment).
PeerUp ==
    /\ peer = "down"
    /\ peer' = "ready"
    /\ UNCHANGED <<pc, context, newResult, connSeq, failed, timedOut, sleeps, slept,
                   now, lastDur, lastCall, firstCall>>
    /\ UNCHANGED <<collVars, pollVars, logVars>>

PeerDown ==
    /\ peer = "ready"
    /\ peer' = "down"
    /\ UNCHANGED <<pc, context, newResult, connSeq, failed, timedOut, sleeps, slept,
                   now, lastDur, lastCall, firstCall>>
    /\ UNCHANGED <<collVars, pollVars, logVars>>

AccessorOps == {"client_v0", "client_v1", "api_version"}

\* What accessor op returns on the manager self.
AccessorResult(op, self) ==
    CASE op = "client_v0" -> client_v0(self)
      [] op = "client_v1" -> client_v1(self)
      [] OTHER -> Ok(api_version(self))

\* An accessor that reconnects when the transport has died: it makes a new
\* connect attempt and hands out the new channel.
AccessorReconnect ==
    /\ pc = "returned"
    /\ newResult # None /\ newResult[1].ok
    /\ \E op \in AccessorOps :
        LET self == IF peer = "down"
                    THEN NewReturn(context[1], connSeq + 1).val
                    ELSE newResult[1].val
            res == AccessorResult(op, self) IN
        /\ lastCall' = Some([op |-> op, res |-> res])
        /\ firstCall' = IF firstCall[op] = None
                        THEN [firstCall EXCEPT ![op] = Some(res)]
                        ELSE firstCall
        /\ newResult' = Some(Ok(self))
        /\ connSeq' = IF peer = "down" /\ connSeq <= MaxFails THEN connSeq + 1 ELSE connSeq
    /\ UNCHANGED <<pc, context, peer, failed, timedOut, sleeps,
                   slept, now, lastDur>>
    /\ UNCHANGED <<collVars, pollVars, logVars>>

\* A caller (the poller) uses an accessor of the constructed manager.
Accessor ==
    /\ pc = "returned"
    /\ newResult # None /\ newResult[1].ok
    /\ \E op \in AccessorOps :
        LET res == AccessorResult(op, newResult[1].val) IN
        /\ lastCall' = Some([op |-> op, res |-> res])
        /\ firstCall' = IF firstCall[op] = None
                        THEN [firstCall EXCEPT ![op] = Some(res)]
                        ELSE firstCall
    /\ UNCHANGED <<pc, context, newResult, peer, connSeq, failed, timedOut, sleeps,
                   slept, now, lastDur>>
    /\ UNCHANGED <<collVars, pollVars, logVars>>

ConnInit ==
    /\ pc = "init"
    /\ context = None
    /\ newResult = None
    /\ peer \in {"down", "ready"}
    /\ connSeq = 0
    /\ failed = 0
    /\ timedOut = 0
    /\ sleeps = 0
    /\ slept = 0
    /\ now = 0
    /\ lastDur = 0
    /\ lastCall = None
    /\ firstCall = [op \in AccessorOps |-> None]

CollIdle ==
    /\ cache = <<>>
    /\ poisoned = FALSE
    /\ lockHolder = None
    /\ cpc = "idle"
    /\ which = "capacity"
    /\ lockRes = None
    /\ cp = <<>>
    /\ node_name = None
    /\ idx = 1
    /\ gauge = 1
    /\ metric_family = <<>>
    /\ src = <<>>
    /\ ret = <<>>
    /\ retSrc = <<>>
    /\ outcome = "none"
    /\ failAt = None
    /\ reads = 0
    /\ gauges = <<>>

\* No poll cycle has run.
PollIdle ==
    /\ ppc = "idle"
    /\ pollTarget = <<>>
    /\ polled = cache
    /\ polls = 0

\* The support tool's sink is not in use.
LogIdle ==
    /\ cell = "uninit"
    /\ logFile = <<>>
    /\ stdout = <<>>
    /\ stdoutOpen = TRUE
    /\ logRet = "none"

InitConn == ConnInit /\ CollIdle /\ PollIdle /\ LogIdle

ConnNext == init_client \/ Connect \/ Backoff \/ PeerUp \/ PeerDown \/ Accessor

\* The startup path alone (the collectors are not registered yet).
SpecConn == InitConn /\ [][ConnNext]_vars

\* The retry loop is an awaited future on the runtime: it is always resumed.
LiveConn == SpecConn /\ WF_vars(Connect) /\ WF_vars(Backoff)

(***************************************************************************)
(* collector/pool.rs                                                       *)
(***************************************************************************)
\* A u64 quantity v is the record [hi, lo] with v = hi * 2^LoBits + lo and
\* lo < 2^LoBits, so that quantities past 2^53 can be written down.
LoBits == 30

U64(n) == [hi |-> 0, lo |-> n]

\* PoolInfo records the poller can have put in the cache.
PoolA  == [name |-> "pool-a", capacity |-> U64(1000), used |-> U64(200),
           committed |-> U64(500), state |-> U64(1)]
PoolB  == [name |-> "pool-b", capacity |-> U64(2000), used |-> U64(0),
           committed |-> U64(0), state |-> U64(0)]
PoolA2 == [name |-> "pool-a", capacity |-> U64(2000), used |-> U64(0),
           committed |-> U64(500), state |-> U64(0)]
PoolE  == [name |-> "", capacity |-> U64(1000), used |-> U64(1000),
           committed |-> U64(0), state |-> U64(1)]
\* capacity 2^53 + 1, used 2^53 + 3
PoolBig == [name |-> "pool-big", capacity |-> [hi |-> 2 ^ 23, lo |-> 1],
            used |-> [hi |-> 2 ^ 23, lo |-> 3],
            committed |-> U64(0), state |-> U64(1)]
PoolInfos == {PoolA, PoolB, PoolA2, PoolE, PoolBig}

\* Contents of Cache.pool.pools: every sequence of at most MaxPools records.
Caches == UNION {[1..n -> PoolInfos] : n \in 0..MaxPools}

\* What get_node_name() can return.
NodeNameResults == {Ok("node-1"), Err("GetEnvironmentVariable", "node name")}

Collectors == {"capacity", "status"}

\* Width of the f64 significand.
F64MantBits == 53

RECURSIVE BitLen(_)
BitLen(v) == IF v = 0 THEN 0 ELSE 1 + BitLen(v \div 2)

\* `x as f64` for an unsigned integer: exact up to 53 significant bits,
\* otherwise rounded to nearest, ties to even (here for at most LoBits
\* dropped bits).
AsF64(v) ==
    LET n == IF v.hi = 0 THEN BitLen(v.lo) ELSE LoBits + BitLen(v.hi) IN
    IF n <= F64MantBits THEN v
    ELSE LET sh   == n - F64MantBits
             unit == 2 ^ sh
             q    == v.lo \div unit
             r    == v.lo % unit
             up   == (2 * r > unit) \/ (2 * r = unit /\ q % 2 = 1)
             lo2  == (IF up THEN q + 1 ELSE q) * unit
         IN  IF lo2 = 2 ^ LoBits
             THEN [hi |-> v.hi + 1, lo |-> 0]
             ELSE [hi |-> v.hi, lo |-> lo2]

\* The capacity collector leaves out its third gauge.
GaugesOfTwo(c) ==
    IF c = "capacity"
    THEN <<"total_size_bytes", "used_size_bytes">>
    ELSE <<"status">>

\* The GaugeVecs of a collector, in the order the loop body uses them.
GaugesOf(c) ==
    IF c = "capacity"
    THEN <<"total_size_bytes", "used_size_bytes", "committed_size_bytes">>
    ELSE <<"status">>

Metrics == {"total_size_bytes", "used_size_bytes", "committed_size_bytes", "status"}

\* The total size gauge is fed from used().
GaugeValueUsed(m, p) ==
    CASE m = "total_size_bytes"     -> AsF64(p.used)
      [] m = "used_size_bytes"      -> AsF64(p.used)
      [] m = "committed_size_bytes" -> AsF64(p.committed)
      [] OTHER                      -> AsF64(p.state)

\* The value the loop body sets on gauge m for entity p.
GaugeValue(m, p) ==
    CASE m = "total_size_bytes"     -> AsF64(p.capacity)
      [] m = "used_size_bytes"      -> AsF64(p.used)
      [] m = "committed_size_bytes" -> AsF64(p.committed)
      [] OTHER                      -> AsF64(p.state)

\* The two label values are passed in the wrong order.
LabelValuesSwapped(node, p) == <<p.name, node>>

\* &[node_name.clone().as_str(), p.name().as_str()] for the labels [node, name]
LabelValues(node, p) == <<node, p.name>>

\* GaugeVec::get_metric_with_label_values: the child of the label values,
\* created with value 0 when it does not exist yet.
GetMetric(gv, lv) ==
    IF lv \in DOMAIN gv THEN gv
    ELSE [k \in (DOMAIN gv) \cup {lv} |-> IF k = lv THEN U64(0) ELSE gv[k]]

\* The value is only stored into a child that still holds 0.
GaugeSetStale(gv, lv, v) == IF gv[lv] = U64(0) THEN [gv EXCEPT ![lv] = v] ELSE gv

\* Gauge::set on the child of the label values.
GaugeSet(gv, lv, v) == [gv EXCEPT ![lv] = v]

\* The family is taken from the whole GaugeVec: the sample of some child
\* of the vector, not of the child just set.
GaugeCollectStale(m, gv, lv) ==
    LET k == CHOOSE k \in DOMAIN gv : TRUE IN
    [subsystem |-> "disk_pool", metric |-> m,
     labels |-> [node |-> k[1], name |-> k[2]],
     value |-> gv[k]]

\* Gauge::collect on that child followed by x.pop(): one metric family with
\* the child's label pairs and its current value.
GaugeCollect(m, gv, lv) ==
    [subsystem |-> "disk_pool", metric |-> m,
     labels |-> [node |-> lv[1], name |-> lv[2]],
     value |-> gv[lv]]

\* The cache is read without waiting for the lock.
CollectLockNoWait(c) ==
    /\ cpc \in {"idle", "returned"}
    /\ which' = c
    /\ failAt' = None
    /\ reads' = 0
    /\ node_name' = None
    /\ src' = <<>>
    /\ idx' = 1
    /\ gauge' = 1
    /\ IF poisoned
       THEN /\ lockRes' = Some("poisoned")
            /\ ret' = <<>>
            /\ retSrc' = <<>>
            /\ outcome' = "lock_err"
            /\ cpc' = "returned"
            /\ UNCHANGED <<lockHolder, cp, metric_family>>
       ELSE /\ lockRes' = Some("ok")
            /\ lockHolder' = Some(c)
            /\ cp' = cache
            /\ metric_family' = <<>>
            /\ cpc' = "node"
            /\ UNCHANGED <<ret, retSrc, outcome>>
    /\ UNCHANGED <<cache, poisoned, gauges>>
    /\ UNCHANGED <<connVars, pollVars, logVars>>

\* The poisoned lock is used all the same (PoisonError::into_inner).
CollectLockIntoInner(c) ==
    /\ cpc \in {"idle", "returned"}
    /\ lockHolder = None
    /\ which' = c
    /\ failAt' = None
    /\ reads' = 0
    /\ node_name' = None
    /\ src' = <<>>
    /\ idx' = 1
    /\ gauge' = 1
    /\ lockRes' = Some(IF poisoned THEN "poisoned" ELSE "ok")
    /\ lockHolder' = Some(c)
    /\ cp' = cache
    /\ metric_family' = <<>>
    /\ cpc' = "node"
    /\ UNCHANGED <<ret, retSrc, outcome>>
    /\ UNCHANGED <<cache, poisoned, gauges>>
    /\ UNCHANGED <<connVars, pollVars, logVars>>

\* collect(), lines 67-75 / 165-173: take the cache lock; a poisoned lock ends
\* the call with an empty Vec, otherwise the output Vec is created.
CollectLock(c) ==
    /\ cpc \in {"idle", "returned"}
    /\ lockHolder = None
    /\ which' = c
    /\ failAt' = None
    /\ reads' = 0
    /\ node_name' = None
    /\ src' = <<>>
    /\ idx' = 1
    /\ gauge' = 1
    /\ IF poisoned
       THEN /\ lockRes' = Some("poisoned")
            /\ ret' = <<>>
            /\ retSrc' = <<>>
            /\ outcome' = "lock_err"
            /\ cpc' = "returned"
            /\ UNCHANGED <<lockHolder, cp, metric_family>>
       ELSE /\ lockRes' = Some("ok")
            /\ lockHolder' = Some(c)
            /\ cp' = cache
            /\ metric_family' = <<>>
            /\ cpc' = "node"
            /\ UNCHANGED <<ret, retSrc, outcome>>
    /\ UNCHANGED <<cache, poisoned, gauges>>
    /\ UNCHANGED <<connVars, pollVars, logVars>>

\* The guard is leaked on the labeling-error return.
ReturnLeak(how) ==
    /\ ret' = metric_family
    /\ retSrc' = src
    /\ outcome' = how
    /\ lockHolder' = IF how = "label_err" THEN lockHolder ELSE None
    /\ cpc' = "returned"

\* The guard taken by the capacity collector is kept for the status
\* collector of the same scrape.
ReturnHoldAcross(how) ==
    /\ ret' = metric_family
    /\ retSrc' = src
    /\ outcome' = how
    /\ lockHolder' = IF which = "capacity" THEN lockHolder ELSE None
    /\ cpc' = "returned"

\* A return of collect() with the lock held: the guard is dropped.
Return(how) ==
    /\ ret' = metric_family
    /\ retSrc' = src
    /\ outcome' = how
    /\ lockHolder' = None
    /\ cpc' = "returned"

\* A failed resolution falls back to the empty name (unwrap_or_default).
CollectNodeNameDefault ==
    /\ cpc = "node"
    /\ \E r \in NodeNameResults :
        /\ node_name' = Some(IF r.ok THEN r.val ELSE "")
        /\ cpc' = "loop"
        /\ UNCHANGED <<ret, retSrc, outcome, lockHolder>>
    /\ UNCHANGED <<cache, poisoned, which, lockRes, cp, idx, gauge, metric_family,
                   src, failAt, reads, gauges>>
    /\ UNCHANGED <<connVars, pollVars, logVars>>

\* collect(), lines 76-82 / 174-180: resolve the node name.
CollectNodeName ==
    /\ cpc = "node"
    /\ \E r \in NodeNameResults :
        IF r.ok
        THEN /\ node_name' = Some(r.val)
             /\ cpc' = "loop"
             /\ UNCHANGED <<ret, retSrc, outcome, lockHolder>>
        ELSE /\ Return("node_err")
             /\ UNCHANGED node_name
    /\ UNCHANGED <<cache, poisoned, which, lockRes, cp, idx, gauge, metric_family,
                   src, failAt, reads, gauges>>
    /\ UNCHANGED <<connVars, pollVars, logVars>>

\* A labeling error skips the entity and the loop goes on.
LabelErrorSkip ==
    /\ failAt' = Some(<<idx, gauge>>)
    /\ reads' = IF gauge = 1 THEN reads + 1 ELSE reads
    /\ idx' = idx + 1
    /\ gauge' = 1
    /\ UNCHANGED <<ret, retSrc, outcome, lockHolder, cpc>>
    /\ UNCHANGED <<metric_family, src, gauges>>

\* The Err arm returns a new empty Vec, as the lock failure does.
LabelErrorEmpty ==
    /\ failAt' = Some(<<idx, gauge>>)
    /\ reads' = IF gauge = 1 THEN reads + 1 ELSE reads
    /\ ret' = <<>>
    /\ retSrc' = <<>>
    /\ outcome' = "label_err"
    /\ lockHolder' = None
    /\ cpc' = "returned"
    /\ UNCHANGED <<idx, gauge, metric_family, src, gauges>>

\* The Err arm of get_metric_with_label_values: log and return metric_family.
LabelError ==
    /\ failAt' = Some(<<idx, gauge>>)
    /\ reads' = IF gauge = 1 THEN reads + 1 ELSE reads
    /\ Return("label_err")
    /\ UNCHANGED <<idx, gauge, metric_family, src, gauges>>

\* The Ok arm: set the child gauge, collect it and push its one family.
EmitSample ==
    LET p  == cache[idx]
        m  == GaugesOf(which)[gauge]
        lv == LabelValues(node_name[1], p)
        gv == GaugeSet(GetMetric(gauges[m], lv), lv, GaugeValue(m, p))
    IN  /\ gauges' = [gauges EXCEPT ![m] = gv]
        /\ metric_family' = Append(metric_family, GaugeCollect(m, gv, lv))
        /\ src' = Append(src, [i |-> idx, p |-> p])
        /\ reads' = IF gauge = 1 THEN reads + 1 ELSE reads
        /\ IF gauge < Len(GaugesOf(which))
           THEN /\ gauge' = gauge + 1
                /\ idx' = idx
           ELSE /\ gauge' = 1
                /\ idx' = idx + 1
        /\ UNCHANGED <<ret, retSrc, outcome, lockHolder, cpc, failAt>>

\* One gauge of one entity in the for loop (lines 87-127 / 183-195).
CollectGauge ==
    /\ cpc = "loop"
    /\ idx <= Len(cache)
    /\ \E labelOk \in BOOLEAN : IF labelOk THEN EmitSample ELSE LabelError
    /\ UNCHANGED <<cache, poisoned, which, lockRes, cp, node_name>>
    /\ UNCHANGED <<connVars, pollVars, logVars>>

\* The pools are drained from the cache by the scrape.
CollectDoneClear ==
    /\ cpc = "loop"
    /\ idx > Len(cache)
    /\ Return("complete")
    /\ cache' = <<>>
    /\ UNCHANGED <<poisoned, which, lockRes, cp, node_name, idx, gauge,
                   metric_family, src, failAt, reads, gauges>>
    /\ UNCHANGED <<connVars, pollVars, logVars>>

\* The loop is exhausted: return metric_family (line 129 / 197).
CollectDone ==
    /\ cpc = "loop"
    /\ idx > Len(cache)
    /\ Return("complete")
    /\ UNCHANGED <<cache, poisoned, which, lockRes, cp, node_name, idx, gauge,
                   metric_family, src, failAt, reads, gauges>>
    /\ UNCHANGED <<connVars, pollVars, logVars>>

\* A holder of the cache lock panicked: the mutex is poisoned from now on.
PoisonLock ==
    /\ lockHolder = None
    /\ ~poisoned
    /\ poisoned' = TRUE
    /\ UNCHANGED <<cache, lockHolder, cpc, which, lockRes, cp, node_name, idx, gauge,
                   metric_family, src, ret, retSrc, outcome, failAt, reads, gauges>>
    /\ UNCHANGED <<connVars, pollVars, logVars>>

\* The collectors are registered after the manager is connected; the cache
\* holds what the poller last wrote.
CollInit ==
    /\ cache \in Caches
    /\ poisoned = FALSE
    /\ lockHolder = None
    /\ cpc = "idle"
    /\ which = "capacity"
    /\ lockRes = None
    /\ cp = <<>>
    /\ node_name = None
    /\ idx = 1
    /\ gauge = 1
    /\ metric_family = <<>>
    /\ src = <<>>
    /\ ret = <<>>
    /\ retSrc = <<>>
    /\ outcome = "none"
    /\ failAt = None
    /\ reads = 0
    /\ gauges = [m \in Metrics |-> <<>>]

ConnDone ==
    /\ pc = "returned"
    /\ context = Some(GrpcContext_new("https://pod_ip:10124",
                        Timeouts_new(ConnectTimeoutSec, RequestTimeoutSec), "V1"))
    /\ newResult = Some(NewReturn(context[1], 1))
    /\ peer = "ready"
    /\ connSeq = 1
    /\ failed = 0
    /\ timedOut = 0
    /\ sleeps = 0
    /\ slept = 0
    /\ now = 0
    /\ lastDur = 0
    /\ lastCall = None
    /\ firstCall = [op \in AccessorOps |-> None]

InitColl == ConnDone /\ CollInit /\ PollIdle /\ LogIdle

CollNext ==
    \/ \E c \in Collectors : CollectLock(c)
    \/ CollectNodeName
    \/ CollectGauge
    \/ CollectDone
    \/ PoisonLock

\* The scrape path alone, after startup.
SpecColl == InitColl /\ [][CollNext]_vars

(***************************************************************************)
(* The background poller, the writer of the cache (not part of this        *)
(* source: modelled from the design's cache access contract).              *)
(***************************************************************************)
MaxPolls == 2
MaxPollLen == 2

\* What a poll cycle can fetch from the io-engine: pools that appear, change
\* their values (PoolA / PoolA2) and disappear.
PollPools == {PoolA, PoolB, PoolA2}
\* The io-engine lists each of its pools once: the names are distinct.
PollTargets ==
    {t \in UNION {[1..n -> PollPools] : n \in 0..MaxPollLen} :
        \A i, j \in 1..Len(t) : t[i].name = t[j].name => i = j}

\* The poller takes the cache lock to write the pools it fetched.
PollLock ==
    /\ ppc = "idle"
    /\ polls < MaxPolls
    /\ lockHolder = None
    /\ ~poisoned
    /\ \E t \in PollTargets : pollTarget' = t
    /\ lockHolder' = Some("poller")
    /\ cache' = <<>>
    /\ ppc' = "write"
    /\ UNCHANGED <<polled, polls>>
    /\ UNCHANGED <<poisoned, cpc, which, lockRes, cp, node_name, idx, gauge,
                   metric_family, src, ret, retSrc, outcome, failAt, reads, gauges>>
    /\ UNCHANGED <<connVars, logVars>>

\* It writes one entity.
PollWrite ==
    /\ ppc = "write"
    /\ Len(cache) < Len(pollTarget)
    /\ cache' = Append(cache, pollTarget[Len(cache) + 1])
    /\ UNCHANGED <<ppc, pollTarget, polled, polls>>
    /\ UNCHANGED <<poisoned, lockHolder, cpc, which, lockRes, cp, node_name, idx, gauge,
                   metric_family, src, ret, retSrc, outcome, failAt, reads, gauges>>
    /\ UNCHANGED <<connVars, logVars>>

\* All entities are written: the cycle is complete and the guard is dropped.
PollUnlock ==
    /\ ppc = "write"
    /\ Len(cache) = Len(pollTarget)
    /\ polled' = cache
    /\ polls' = polls + 1
    /\ lockHolder' = IF lockHolder = Some("poller") THEN None ELSE lockHolder
    /\ ppc' = "idle"
    /\ UNCHANGED pollTarget
    /\ UNCHANGED <<cache, poisoned, cpc, which, lockRes, cp, node_name, idx, gauge,
                   metric_family, src, ret, retSrc, outcome, failAt, reads, gauges>>
    /\ UNCHANGED <<connVars, logVars>>

\* The poller panics while it holds the guard: the mutex is poisoned.
PollPanic ==
    /\ ppc = "write"
    /\ poisoned' = TRUE
    /\ lockHolder' = IF lockHolder = Some("poller") THEN None ELSE lockHolder
    /\ ppc' = "dead"
    /\ UNCHANGED <<pollTarget, polled, polls>>
    /\ UNCHANGED <<cache, cpc, which, lockRes, cp, node_name, idx, gauge,
                   metric_family, src, ret, retSrc, outcome, failAt, reads, gauges>>
    /\ UNCHANGED <<connVars, logVars>>

\* The exporter after startup: the cache is empty until the first poll.
InitScrape == ConnDone /\ CollInit /\ cache = <<>> /\ PollIdle /\ LogIdle

ScrapeNext ==
    \/ \E c \in Collectors : CollectLock(c)
    \/ CollectNodeName
    \/ CollectGauge
    \/ CollectDone
    \/ PollLock
    \/ PollWrite
    \/ PollUnlock
    \/ PollPanic

\* Scrapes running concurrently with the poller.
SpecScrape == InitScrape /\ [][ScrapeNext]_vars

(***************************************************************************)
(* k8s/supportability collect/utils.rs                                     *)
(***************************************************************************)
MaxLines == 3

LogTexts == {"a", "b"}

\* println!: appends the line; panics when writing to stdout fails.
Println(line) ==
    IF stdoutOpen
    THEN /\ stdout' = Append(stdout, line)
         /\ logRet' = "returned"
    ELSE /\ stdout' = stdout
         /\ logRet' = "panicked"

\* write_to_log_file: Err(NotFound) when the cell is not initialised, Ok(())
\* when it holds None, the result of write_all when it holds a file.
write_to_log_file(writeOk) ==
    CASE cell = "uninit" -> Err("NotFound", "LogFile not initialised!")
      [] cell = "none"   -> Ok("unit")
      [] OTHER           -> IF writeOk THEN Ok("unit") ELSE Err("Other", "write_all")

\* log(content): print the line, write it to the log file, and print the
\* error of a failed write instead of returning it.
log ==
    /\ logRet \in {"none", "returned"}
    /\ Len(stdout) < MaxLines
    /\ \E content \in LogTexts, writeOk \in BOOLEAN :
        LET res == write_to_log_file(writeOk) IN
        /\ logFile' = IF stdoutOpen /\ cell = "file" /\ writeOk
                      THEN Append(logFile, content) ELSE logFile
        /\ IF stdoutOpen /\ ~res.ok
           THEN /\ stdout' = stdout \o <<content, "Not be able to write to log file">>
                /\ logRet' = "returned"
           ELSE Println(content)
    /\ UNCHANGED <<cell, stdoutOpen>>
    /\ UNCHANGED <<connVars, collVars, pollVars>>

\* init_tool_log_file: File::create can fail (the cell stays as it is);
\* setting a cell that is already set panics in expect().
init_tool_log_file ==
    /\ logRet \in {"none", "returned"}
    /\ \E created \in BOOLEAN :
        IF ~created
        THEN UNCHANGED <<cell, logRet>>
        ELSE IF cell = "uninit"
        THEN cell' = "file" /\ UNCHANGED logRet
        ELSE logRet' = "init_panicked" /\ UNCHANGED cell
    /\ cell' # cell \/ logRet' # logRet
    /\ UNCHANGED <<logFile, stdout, stdoutOpen>>
    /\ UNCHANGED <<connVars, collVars, pollVars>>

\* init_no_log_file: sets the cell to None; panics when it is already set.
init_no_log_file ==
    /\ logRet \in {"none", "returned"}
    /\ IF cell = "uninit"
       THEN cell' = "none" /\ UNCHANGED logRet
       ELSE logRet' = "init_panicked" /\ UNCHANGED cell
    /\ UNCHANGED <<logFile, stdout, stdoutOpen>>
    /\ UNCHANGED <<connVars, collVars, pollVars>>

\* The reader of the tool's stdout goes away (closed pipe).
StdoutClosed ==
    /\ stdoutOpen
    /\ stdoutOpen' = FALSE
    /\ UNCHANGED <<cell, logFile, stdout, logRet>>
    /\ UNCHANGED <<connVars, collVars, pollVars>>

InitLog == ConnInit /\ CollIdle /\ PollIdle /\ LogIdle

LogNext == log \/ init_tool_log_file \/ init_no_log_file \/ StdoutClosed

\* The support tool's diagnostic sink alone.
SpecLog == InitLog /\ [][LogNext]_vars

(***************************************************************************)
(* Properties of the connection manager.                                   *)
(***************************************************************************)
Constructed == newResult # None /\ newResult[1].ok

\* C1: every GrpcClient returned by GrpcClient::new has exactly one of
\* v0_client / v1_client populated, the one matching ctx.api_version; the
\* accessor of the absent side fails with GrpcClientError and the accessor of
\* the populated side succeeds (also for every accessor call made).
ExactlyOneHandle ==
    /\ Constructed =>
         LET m == newResult[1].val IN
         /\ m.ctx = context[1]
         /\ (m.v0_client = None) # (m.v1_client = None)
         /\ api_version(m) = "V0" =>
               /\ m.v1_client = None /\ m.v0_client # None
               /\ client_v0(m).ok
               /\ ~client_v1(m).ok /\ client_v1(m).kind = "GrpcClientError"
         /\ api_version(m) = "V1" =>
               /\ m.v0_client = None /\ m.v1_client # None
               /\ client_v1(m).ok
               /\ ~client_v0(m).ok /\ client_v0(m).kind = "GrpcClientError"
    /\ lastCall # None =>
         LET m == newResult[1].val
             c == lastCall[1] IN
         /\ c.op = "client_v0" => (c.res.ok <=> m.ctx.api_version = "V0")
         /\ c.op = "client_v1" => (c.res.ok <=> m.ctx.api_version = "V1")
         /\ (c.op \in {"client_v0", "client_v1"} /\ ~c.res.ok) =>
               c.res.kind = "GrpcClientError"

\* A V1 manager on which client_v0 was called, and failed.
ExactlyOneHandleWitness ==
    /\ Constructed /\ lastCall # None
    /\ newResult[1].val.ctx.api_version = "V1"
    /\ newResult[1].val.v1_client # None
    /\ lastCall[1].op = "client_v0" /\ ~lastCall[1].res.ok

\* C2: GrpcClient::new never returns an error: once it has been entered the
\* only value it ever returns is Ok, it returns only on a connected attempt,
\* and while every attempt so far has failed it has not returned and is in
\* the loop (attempting or sleeping).
NewNeverFails ==
    /\ pc \in {"init", "init_failed", "connect", "backoff", "returned"}
    /\ pc \in {"connect", "backoff"} => (newResult = None /\ connSeq = failed)
    /\ pc = "returned" => (Constructed /\ connSeq = failed + 1)
    /\ (newResult # None /\ ~newResult[1].ok) => (pc = "init_failed" /\ connSeq = 0)

\* new() returned Ok after a mix of timeouts and transport errors.
NewNeverFailsWitness ==
    /\ pc = "returned" /\ Constructed
    /\ failed >= 2 /\ timedOut >= 1 /\ timedOut < failed

\* C3: when the target fails N times (timeouts and transport errors in any
\* mix) and then succeeds, new() has made N+1 attempts of which N failed, has
\* slept exactly N times for 10 seconds each, one after each failed attempt
\* and before the next attempt, and returns the handle of the last attempt.
RetryConvergence ==
    /\ pc = "connect" => (sleeps = failed /\ connSeq = failed)
    /\ pc = "backoff" => (sleeps + 1 = failed /\ connSeq = failed)
    /\ slept = 10 * sleeps
    /\ pc = "returned" =>
         /\ connSeq = failed + 1
         /\ sleeps = failed
         /\ slept = 10 * failed
         /\ LET m == newResult[1].val IN
            IF m.ctx.api_version = "V0"
            THEN m.v0_client = Some([channel |-> connSeq])
            ELSE m.v1_client = Some([pool |-> [channel |-> connSeq]])

\* Two failures (one timeout, one transport error), then success, on V1.
RetryConvergenceWitness ==
    /\ pc = "returned" /\ failed = 2 /\ timedOut = 1 /\ sleeps = 2
    /\ newResult[1].val.ctx.api_version = "V1"

\* C4: if the peer eventually becomes ready and stays ready, a call of
\* GrpcClient::new that is in its loop eventually returns.
ConnectLiveness ==
    (<>[](peer = "ready")) => [](pc \in {"connect", "backoff"} => <>(pc = "returned"))

\* new() returned after at least one failed attempt, the peer being ready.
ConnectLivenessWitness ==
    pc = "returned" /\ Constructed /\ failed >= 1 /\ peer = "ready"

\* C5: with connect timeout 1s and backoff 10s, when the target times out
\* twice and then succeeds, new() returns no earlier than 20 seconds after it
\* was entered, with the handle populated and no error; no attempt takes
\* longer than the connect timeout.
TimingScenario ==
    /\ context # None => lastDur <= context[1].timeouts.connect
    /\ (pc = "returned" /\ failed = 2 /\ timedOut = 2) =>
         /\ context[1].timeouts.connect = 1
         /\ now >= 20
         /\ Constructed
         /\ LET m == newResult[1].val IN
            (m.v0_client # None) \/ (m.v1_client # None)

\* Two timeouts, then a connected attempt.
TimingScenarioWitness ==
    /\ pc = "returned" /\ failed = 2 /\ timedOut = 2 /\ connSeq = 3
    /\ now >= 22

(***************************************************************************)
(* Properties of the collectors.                                           *)
(***************************************************************************)
Returned == cpc = "returned"

HasSample(out, m, node, name, v) ==
    \E k \in 1..Len(out) :
        /\ out[k].metric = m
        /\ out[k].labels = [node |-> node, name |-> name]
        /\ out[k].value = v

\* C6: when the cache lock was acquired, the node name was resolved and no
\* labeling error occurred, collect() of the capacity collector returns
\* exactly 3*k samples and collect() of the status collector exactly k, k
\* being the number of pool entities in the cache.
ScrapeCompleteness ==
    (Returned /\ lockRes = Some("ok") /\ node_name # None /\ failAt = None) =>
        /\ outcome = "complete"
        /\ Len(cp) = Len(cache)
        /\ which = "capacity" => Len(ret) = 3 * Len(cache)
        /\ which = "status" => Len(ret) = Len(cache)

\* A complete capacity scrape of two pools that share a name.
ScrapeCompletenessWitness ==
    /\ Returned /\ outcome = "complete" /\ which = "capacity"
    /\ Len(cache) = 2 /\ cache[1].name = cache[2].name
    /\ Len(ret) = 6

\* C7: when taking the cache lock fails (poisoned), collect() of either
\* collector returns an empty Vec on its first step: without panicking,
\* without holding the lock, before the node name is resolved and before any
\* pool entity is read.
LockFailureDegradation ==
    lockRes = Some("poisoned") =>
        /\ Returned
        /\ outcome = "lock_err"
        /\ ret = <<>>
        /\ node_name = None
        /\ reads = 0
        /\ lockHolder = None

\* The status collector met a poisoned lock over a cache of two pools, after
\* an earlier scrape had emitted samples.
LockFailureDegradationWitness ==
    /\ Returned /\ lockRes = Some("poisoned") /\ which = "status"
    /\ Len(cache) = 2
    /\ DOMAIN gauges["status"] # {}

\* C8 as stated: every returned sample carries (resolved node name, name of
\* the entity it was read from) and no label value is empty, for every cache
\* content including pools with an empty name.
LabelCorrectnessNoEmpty ==
    Returned =>
        \A k \in 1..Len(ret) :
            /\ ret[k].labels = [node |-> node_name[1], name |-> retSrc[k].p.name]
            /\ ret[k].labels.node # ""
            /\ ret[k].labels.name # ""

\* C8 amended: every returned sample carries the label tuple (resolved node
\* name, name of the entity its value was read from), also when pools share a
\* name; its name label is empty exactly when that entity's name is empty.
LabelCorrectness ==
    Returned =>
        \A k \in 1..Len(ret) :
            /\ ret[k].labels = [node |-> node_name[1], name |-> retSrc[k].p.name]
            /\ retSrc[k].p = cp[retSrc[k].i]
            /\ (ret[k].labels.name = "") <=> (cp[retSrc[k].i].name = "")

\* A returned scrape with a sample of an unnamed pool and one of a named pool.
LabelCorrectnessWitness ==
    /\ Returned /\ Len(ret) >= 2
    /\ \E k \in 1..Len(ret) : ret[k].labels.name = ""
    /\ \E k \in 1..Len(ret) : ret[k].labels.name = "pool-a"

\* C9 as stated: after a labeling error at entity j, every returned sample
\* belongs to an entity before j.
TruncationBeforeEntity ==
    (Returned /\ failAt # None) =>
        \A k \in 1..Len(ret) : retSrc[k].i < failAt[1][1]

\* C9 amended: after a labeling error at gauge g of entity j, collect()
\* returns all samples of the entities before j followed by the samples of
\* the g-1 gauges of entity j that precede the failing one (none for the
\* status collector, none when total_size fails), and nothing of the failing
\* gauge, of later gauges or of later entities.
TruncationAtGauge ==
    (Returned /\ failAt # None) =>
        LET j == failAt[1][1]
            g == failAt[1][2]
            n == IF which = "capacity" THEN 3 ELSE 1
            names == IF which = "capacity"
                     THEN <<"total_size_bytes", "used_size_bytes", "committed_size_bytes">>
                     ELSE <<"status">>
        IN  /\ outcome = "label_err"
            /\ j \in 1..Len(cp) /\ g \in 1..n
            /\ Len(ret) = n * (j - 1) + (g - 1)
            /\ \A k \in 1..Len(ret) :
                 /\ retSrc[k].i = ((k - 1) \div n) + 1
                 /\ ret[k].metric = names[((k - 1) % n) + 1]
                 /\ retSrc[k].i <= j
                 /\ retSrc[k].i = j => ((k - 1) % n) + 1 < g
            /\ which = "status" => \A k \in 1..Len(ret) : retSrc[k].i < j

\* The committed_size gauge of the second pool failed: five samples returned.
TruncationAtGaugeWitness ==
    /\ Returned /\ which = "capacity" /\ failAt = Some(<<2, 3>>)
    /\ Len(ret) = 5 /\ retSrc[5].i = 2

InScenario(c) ==
    /\ Returned /\ which = c /\ outcome = "complete"
    /\ cp = <<PoolA, PoolB>>
    /\ node_name = Some("node-1")

\* C10 as stated: in the scenario the capacity collector returns 6 samples
\* that include total_size_bytes of pool-a = 1000 and status of pool-b = 0.
ScenarioCapacityWithStatus ==
    InScenario("capacity") =>
        /\ Len(ret) = 6
        /\ HasSample(ret, "total_size_bytes", "node-1", "pool-a", U64(1000))
        /\ HasSample(ret, "status", "node-1", "pool-b", U64(0))

\* C10 amended: in the scenario the capacity collector returns 6 samples that
\* include total_size_bytes of pool-a = 1000 and no status sample; the status
\* collector returns 2 samples that include status of pool-b = 0.
ScenarioTwoCollectors ==
    /\ InScenario("capacity") =>
        /\ Len(ret) = 6
        /\ HasSample(ret, "total_size_bytes", "node-1", "pool-a", U64(1000))
        /\ \A k \in 1..Len(ret) : ret[k].metric # "status"
    /\ InScenario("status") =>
        /\ Len(ret) = 2
        /\ HasSample(ret, "status", "node-1", "pool-b", U64(0))

\* The capacity collector has returned in the scenario, the status collector
\* having run before it.
ScenarioTwoCollectorsWitness ==
    /\ InScenario("capacity") /\ Len(ret) = 6
    /\ <<"node-1", "pool-b">> \in DOMAIN gauges["status"]

(***************************************************************************)
(* Properties of the accessors after construction.                         *)
(***************************************************************************)
\* C13: once GrpcClient::new has returned, client_v0, client_v1 and
\* api_version, in any order and number, leave ctx, v0_client and v1_client
\* unchanged, make no connect attempt, and return what their first call
\* returned, also after the transport has died.
AccessorsReadOnly ==
    /\ [](lastCall # None =>
            /\ firstCall[lastCall[1].op] # None
            /\ lastCall[1].res = firstCall[lastCall[1].op][1])
    /\ [][pc = "returned" =>
            /\ pc' = "returned"
            /\ newResult' = newResult
            /\ context' = context
            /\ connSeq' = connSeq
            /\ now' = now]_vars

\* Every accessor has been called, the last call after the peer went away.
AccessorsReadOnlyWitness ==
    /\ pc = "returned" /\ peer = "down"
    /\ \A op \in AccessorOps : firstCall[op] # None
    /\ lastCall # None /\ lastCall[1].op = "client_v1" /\ lastCall[1].res.ok

(***************************************************************************)
(* Properties of the samples.                                              *)
(***************************************************************************)
MetricNames(c) ==
    IF c = "capacity"
    THEN <<"total_size_bytes", "used_size_bytes", "committed_size_bytes">>
    ELSE <<"status">>

\* The PoolInfo field a metric reports, as stored.
FieldOf(m, p) ==
    CASE m = "total_size_bytes"     -> p.capacity
      [] m = "used_size_bytes"      -> p.used
      [] m = "committed_size_bytes" -> p.committed
      [] OTHER                      -> p.state

\* The samples of a scrape of the pools without errors, entity by entity and
\* gauge by gauge, each value being conv of the field.
Snapshot(c, pools, node, conv(_)) ==
    LET names == MetricNames(c)
        n == Len(names)
    IN  [k \in 1..(n * Len(pools)) |->
            LET p == pools[((k - 1) \div n) + 1]
                m == names[((k - 1) % n) + 1]
            IN  [subsystem |-> "disk_pool", metric |-> m,
                 labels |-> [node |-> node, name |-> p.name],
                 value |-> conv(FieldOf(m, p))]]

Verbatim(v) == v

\* v < 2^53
Below2p53(v) == v.hi < 2 ^ 23

\* C14: when the cache lock was acquired and node-name resolution fails,
\* collect() of either collector returns an empty Vec for every cache
\* content, having read no pool entity, and drops the lock; samples are only
\* ever produced under a name that get_node_name() returned.
NodeNameFailure ==
    /\ (Returned /\ lockRes = Some("ok") /\ node_name = None) =>
         /\ outcome = "node_err"
         /\ ret = <<>>
         /\ reads = 0
         /\ failAt = None
         /\ lockHolder = None
    /\ (cpc = "loop" \/ (Returned /\ ret # <<>>)) =>
         \E r \in NodeNameResults : r.ok /\ node_name = Some(r.val)

\* The capacity collector failed to resolve the node name over two pools,
\* after an earlier scrape had emitted samples.
NodeNameFailureWitness ==
    /\ Returned /\ outcome = "node_err" /\ which = "capacity"
    /\ Len(cache) = 2
    /\ DOMAIN gauges["total_size_bytes"] # {}

\* C15: when obtaining a gauge instance fails, collect() stops at once and
\* returns exactly the samples accumulated before the failure, a prefix of
\* what the same call returns without the failure; the failing step sets no
\* gauge.
AbortWithPrefix ==
    /\ []((Returned /\ failAt # None) =>
            LET n == Len(MetricNames(which))
                full == Snapshot(which, cp, node_name[1], AsF64)
            IN  /\ outcome = "label_err"
                /\ ret = SubSeq(full, 1, n * (failAt[1][1] - 1) + (failAt[1][2] - 1))
                /\ ret = metric_family)
    /\ [][(cpc = "loop" /\ failAt' # None /\ failAt = None) =>
            /\ cpc' = "returned"
            /\ ret' = metric_family
            /\ gauges' = gauges]_vars

\* The total_size gauge of the second pool failed: the three samples of the
\* first pool are returned.
AbortWithPrefixWitness ==
    /\ Returned /\ which = "capacity" /\ failAt = Some(<<2, 1>>)
    /\ Len(ret) = 3 /\ Len(cp) = 2

\* C16 as stated: in a collect() without errors every sample's value equals
\* the entity's field verbatim, in entity order, three per entity (capacity)
\* or one per entity (status).
SampleValuesVerbatim ==
    (Returned /\ outcome = "complete") =>
        ret = Snapshot(which, cp, node_name[1], Verbatim)

\* C16 amended: in a collect() without errors the samples are, per entity in
\* cache order, total_size, used_size, committed_size (capacity collector) or
\* status (status collector), each value being the entity's field converted
\* to f64: the field itself when it is below 2^53, the nearest double (ties
\* to even) otherwise; also when two entities share a name.
SampleValuesAsF64 ==
    (Returned /\ outcome = "complete") =>
        /\ ret = Snapshot(which, cp, node_name[1], AsF64)
        /\ \A k \in 1..Len(ret) :
             LET f == FieldOf(ret[k].metric, retSrc[k].p) IN
             /\ Below2p53(f) => ret[k].value = f
             /\ f = [hi |-> 2 ^ 23, lo |-> 1] => ret[k].value = [hi |-> 2 ^ 23, lo |-> 0]
             /\ f = [hi |-> 2 ^ 23, lo |-> 3] => ret[k].value = [hi |-> 2 ^ 23, lo |-> 4]

\* A complete capacity scrape of a pool of 2^53 + 1 bytes and a second pool.
SampleValuesAsF64Witness ==
    /\ Returned /\ outcome = "complete" /\ which = "capacity"
    /\ Len(cp) = 2 /\ cp[1] = PoolBig /\ Len(ret) = 6
    /\ ret[1].value = [hi |-> 2 ^ 23, lo |-> 0]
    /\ ret[4].value = cp[2].capacity

(***************************************************************************)
(* Properties of the diagnostic sink.                                      *)
(***************************************************************************)
\* C12: log(text) never fails its caller: in every state of the log-file
\* cell (not initialised, initialised without a file, initialised with a
\* file whose write succeeds or fails) it returns normally, without a panic.
LogNeverFails == logRet # "panicked"

(***************************************************************************)
(* Properties of the scrapes running concurrently with the poller.         *)
(***************************************************************************)
Collecting == lockHolder = Some("capacity") \/ lockHolder = Some("status")

\* What a collect() call owns: everything but the cache and its lock.
collLocal == <<cpc, which, lockRes, cp, node_name, idx, gauge, metric_family, src,
               ret, retSrc, outcome, failAt, reads, gauges>>

\* C11: with the poller writing the cache under the same lock, a scrape
\* observes the complete result of one finished poll cycle: while a collector
\* holds the lock the cache is what the last completed cycle wrote and no
\* write is in progress, and every returned sample was read from an entity of
\* that cycle, at its index.
SnapshotAtomicity ==
    /\ [](Collecting => (ppc # "write" /\ cache = polled /\ cp = polled))
    /\ [][(Collecting /\ cpc' = "returned") =>
            /\ polled' = polled
            /\ \A k \in 1..Len(ret') :
                 /\ retSrc'[k].i \in 1..Len(polled)
                 /\ retSrc'[k].p = polled[retSrc'[k].i]]_vars

\* A complete scrape saw the previous cycle; the poller is now half way
\* through writing the next one.
SnapshotAtomicityWitness ==
    /\ Returned /\ outcome = "complete" /\ Len(ret) >= 2
    /\ polls = 1 /\ ppc = "write" /\ Len(pollTarget) = 2 /\ Len(cache) = 1
    /\ cache[1] # cp[1]

\* C17: a collector holds the cache lock from its acquisition until collect()
\* returns, so the cache is not written between two entity reads of one
\* call; the lock is released on every return path, so that a poller can
\* take it after collect() has returned.
LockScope ==
    /\ [](cpc \in {"node", "loop"} <=> lockHolder = Some(which))
    /\ [](Returned => lockHolder # Some(which))
    /\ []((Returned /\ ppc = "idle" /\ ~poisoned /\ polls < MaxPolls) => ENABLED PollLock)
    /\ [][lockHolder = Some(which) => cache' = cache]_vars

\* The poller took the lock after a collect() that ended on a labeling error.
LockScopeWitness ==
    /\ Returned /\ outcome = "label_err" /\ Len(ret) >= 1
    /\ lockHolder = Some("poller") /\ ppc = "write"

\* C18: collect() of either collector never changes the cache: no step of a
\* call changes it, and at every return from a call that took the lock
\* (complete, node-name failure, labeling error) the cache is what it was
\* when the lock was taken.
CollectLeavesCache ==
    /\ [][collLocal' # collLocal => cache' = cache]_vars
    /\ [][(cpc' = "returned" /\ cpc # "returned" /\ lockRes' = Some("ok")) =>
            cache' = cp]_vars

\* A complete scrape of two pools written by a poll cycle; they are still
\* in the cache.
CollectLeavesCacheWitness ==
    /\ Returned /\ outcome = "complete" /\ Len(ret) >= 2
    /\ polls >= 1 /\ Len(cache) = 2 /\ cache = cp /\ ppc = "idle"

\* C19: the samples a collect() returns are computed from the cache content
\* at the time of the call alone: they are the snapshot of that content (or
\* the prefix of it up to a labeling error), so that a pool removed from the
\* cache or a value replaced before the call does not appear, whatever label
\* sets and values the gauge vectors keep from earlier calls.
FreshSnapshot ==
    (Returned /\ lockRes = Some("ok") /\ node_name # None) =>
        LET full == Snapshot(which, cp, node_name[1], AsF64) IN
        /\ Len(ret) <= Len(full)
        /\ ret = SubSeq(full, 1, Len(ret))
        /\ outcome = "complete" => ret = full
        /\ \A k \in 1..Len(ret) :
             \E i \in 1..Len(cp) :
                /\ cp[i].name = ret[k].labels.name
                /\ ret[k].value = AsF64(FieldOf(ret[k].metric, cp[i]))

\* A complete scrape of a cache from which a pool was removed and in which
\* the value of the other pool was replaced; the gauge vector still holds the
\* removed pool's label set.
FreshSnapshotWitness ==
    /\ Returned /\ outcome = "complete" /\ which = "capacity"
    /\ cp = <<PoolA2>> /\ polls = 2
    /\ <<"node-1", "pool-b">> \in DOMAIN gauges["total_size_bytes"]
    /\ ret[1].value = U64(2000)

\* C20: the cache lock is not held across the two collectors of a scrape:
\* after the capacity collector's collect() has returned no collector holds
\* the lock and a poll cycle can start, and the status collector that runs
\* next reads what the last completed cycle wrote, which need not be what the
\* capacity collector read.
LockFreeBetweenCollectors ==
    /\ cpc \in {"idle", "returned"} => ~Collecting
    /\ (Returned /\ which = "capacity" /\ ppc = "idle" /\ ~poisoned /\ polls < MaxPolls) =>
          ENABLED PollLock
    /\ (lockHolder = Some("status") /\ ret # <<>> /\ ret[1].metric = "total_size_bytes") =>
          cp = polled

\* The status collector runs on the pools of a newer poll cycle than the
\* capacity collector that returned just before it.
LockFreeBetweenCollectorsWitness ==
    /\ lockHolder = Some("status") /\ cpc = "loop"
    /\ Len(ret) = 3 /\ ret[1].metric = "total_size_bytes" /\ outcome = "complete"
    /\ polls = 2 /\ Len(cp) = 1 /\ cp[1] # retSrc[1].p

====
